---------------------------- MODULE Spec2Model ----------------------------
(***************************************************************************)
(* Model of src/bayesian_diagnosis.py: the class BayesianDiagnosis, a      *)
(* sequential Bayesian evidence-fusion engine.                             *)
(*                                                                         *)
(* The program computes with Python floats (IEEE-754 binary64, round to    *)
(* nearest, ties to even).  The model keeps that arithmetic: a float is a  *)
(* sign, a binary exponent and a 53-bit significand, the significand held  *)
(* as a little-endian sequence of 15-bit limbs because the model checker's *)
(* integers are 32 bits wide.  Every product, sum, difference and quotient *)
(* is computed exactly and then rounded once, as the hardware does.        *)
(***************************************************************************)
EXTENDS Integers, Sequences, FiniteSets, TLC

(***************************************************************************)
(* Natural numbers of any size: little-endian sequences of limbs, no       *)
(* leading (last) zero limb; <<>> is 0.                                    *)
(***************************************************************************)
LimbBits == 15

Base == 2 ^ LimbBits

Limb(a, i) == IF i <= Len(a) THEN a[i] ELSE 0

RECURSIVE BTrim(_)
BTrim(a) ==
    IF a = <<>> THEN a
    ELSE IF a[Len(a)] = 0 THEN BTrim(SubSeq(a, 1, Len(a) - 1)) ELSE a

RECURSIVE BAddFrom(_, _, _, _)
BAddFrom(a, b, i, c) ==
    IF i > Len(a) /\ i > Len(b)
    THEN (IF c = 0 THEN <<>> ELSE <<c>>)
    ELSE LET t == Limb(a, i) + Limb(b, i) + c
         IN  <<t % Base>> \o BAddFrom(a, b, i + 1, t \div Base)

BAdd(a, b) == BAddFrom(a, b, 1, 0)

\* a - b for a >= b
RECURSIVE BSubFrom(_, _, _, _)
BSubFrom(a, b, i, brw) ==
    IF i > Len(a) THEN <<>>
    ELSE LET t == a[i] - Limb(b, i) - brw
         IN  <<IF t < 0 THEN t + Base ELSE t>>
                 \o BSubFrom(a, b, i + 1, IF t < 0 THEN 1 ELSE 0)

BSub(a, b) == BTrim(BSubFrom(a, b, 1, 0))

RECURSIVE BCmpAt(_, _, _)
BCmpAt(a, b, i) ==
    IF i = 0 THEN 0
    ELSE IF a[i] > b[i] THEN 1
    ELSE IF a[i] < b[i] THEN -1
    ELSE BCmpAt(a, b, i - 1)

\* -1, 0, 1 as a < b, a = b, a > b
BCmp(a, b) ==
    IF Len(a) > Len(b) THEN 1
    ELSE IF Len(a) < Len(b) THEN -1
    ELSE BCmpAt(a, b, Len(a))

\* a * k for a limb k
RECURSIVE BMulSmallFrom(_, _, _, _)
BMulSmallFrom(a, k, i, c) ==
    IF i > Len(a) THEN (IF c = 0 THEN <<>> ELSE <<c>>)
    ELSE LET t == a[i] * k + c
         IN  <<t % Base>> \o BMulSmallFrom(a, k, i + 1, t \div Base)

BMulSmall(a, k) == IF k = 0 THEN <<>> ELSE BMulSmallFrom(a, k, 1, 0)

RECURSIVE BMulFrom(_, _, _)
BMulFrom(a, b, j) ==
    IF j > Len(b) THEN <<>>
    ELSE BAdd(BMulSmall(a, b[j]), <<0>> \o BMulFrom(a, b, j + 1))

BMul(a, b) == IF a = <<>> \/ b = <<>> THEN <<>> ELSE BTrim(BMulFrom(a, b, 1))

\* a * 2^n
BShl(a, n) ==
    IF a = <<>> THEN <<>>
    ELSE [i \in 1..(n \div LimbBits) |-> 0] \o BMulSmall(a, 2 ^ (n % LimbBits))

\* floor(a / 2^n)
BShr(a, n) ==
    LET w == n \div LimbBits
        s == n % LimbBits
    IN  IF w >= Len(a) THEN <<>>
        ELSE BTrim([i \in 1..(Len(a) - w) |->
                      (a[i + w] \div 2 ^ s)
                        + (Limb(a, i + w + 1) % 2 ^ s) * 2 ^ (LimbBits - s)])

\* bit n of a, bit 0 the lowest
BBit(a, n) == (Limb(a, n \div LimbBits + 1) \div 2 ^ (n % LimbBits)) % 2

\* whether a mod 2^n is not 0
BLowNonzero(a, n) ==
    \/ \E i \in 1..Len(a) : i <= n \div LimbBits /\ a[i] # 0
    \/ Limb(a, n \div LimbBits + 1) % 2 ^ (n % LimbBits) # 0

RECURSIVE IBitLen(_)
IBitLen(x) == IF x = 0 THEN 0 ELSE 1 + IBitLen(x \div 2)

BBitLen(a) ==
    IF a = <<>> THEN 0 ELSE LimbBits * (Len(a) - 1) + IBitLen(a[Len(a)])

\* the largest q in 0..qhat with q * d <= r
RECURSIVE BQuotDigit(_, _, _)
BQuotDigit(r, d, qhat) ==
    IF BCmp(BMulSmall(d, qhat), r) <= 0 THEN qhat
    ELSE BQuotDigit(r, d, qhat - 1)

\* Long division in base Base by a divisor d whose top limb is at least
\* Base/2: the limbs i..1 of n are brought down onto the remainder r, and
\* the result is <<quotient limbs i..1 (little-endian), remainder>>.
RECURSIVE BDivFrom(_, _, _, _)
BDivFrom(n, d, i, r) ==
    IF i = 0 THEN <<(<<>>), r>>
    ELSE LET r1   == BTrim(<<n[i]>> \o r)
             L    == Len(d)
             top  == Limb(r1, L + 1) * Base + Limb(r1, L)
             est  == top \div d[L]
             q    == BQuotDigit(r1, d, IF est >= Base THEN Base - 1 ELSE est)
             rest == BDivFrom(n, d, i - 1, BSub(r1, BMulSmall(d, q)))
         IN  <<Append(rest[1], q), rest[2]>>

\* <<floor(n / d), n mod d * 2^s>> for d # 0, s the normalising shift
BDivMod(n, d) ==
    LET s  == LimbBits - IBitLen(d[Len(d)])
        qr == BDivFrom(BShl(n, s), BShl(d, s), Len(BShl(n, s)), <<>>)
    IN  <<BTrim(qr[1]), qr[2]>>


(***************************************************************************)
(* Python floats.  A float is <<s, e, m>>: the value (-1)^s * m * 2^e,     *)
(* with m < 2^53; a normal number has 2^52 <= m, a subnormal one and zero  *)
(* have e = MinExp.  Zero is kept with s = 0: the program never reads the  *)
(* sign of a zero (0.0 == -0.0, and dividing by either raises).  There is  *)
(* no infinity and no NaN: the program's operands stay far below the       *)
(* largest float, and a zero divisor raises before a quotient is formed.   *)
(***************************************************************************)
MantBits == 53

MinExp == -1074

FZero == <<0, MinExp, <<>>>>

FIsZero(x) == x[3] = <<>>

\* M * 2^E (plus, with sticky, a positive amount below one unit of M),
\* rounded to the nearest float, ties to even
FRound(s, M, E, sticky) ==
    IF M = <<>> THEN FZero
    ELSE LET e0    == E + BBitLen(M) - MantBits
             e     == IF e0 < MinExp THEN MinExp ELSE e0
             shift == e - E
         IN  IF shift <= 0 THEN <<s, e, BShl(M, -shift)>>
             ELSE LET q    == BShr(M, shift)
                      half == BBit(M, shift - 1) = 1
                      rest == sticky \/ BLowNonzero(M, shift - 1)
                      up   == half /\ (rest \/ BBit(q, 0) = 1)
                      m    == IF up THEN BAdd(q, <<1>>) ELSE q
                  IN  IF m = <<>> THEN FZero
                      ELSE IF BBitLen(m) > MantBits THEN <<s, e + 1, BShr(m, 1)>>
                      ELSE <<s, e, m>>

FNeg(x) == IF FIsZero(x) THEN x ELSE <<1 - x[1], x[2], x[3]>>

FAbs(x) == <<0, x[2], x[3]>>

\* x * y
FMul(x, y) == FRound((x[1] + y[1]) % 2, BMul(x[3], y[3]), x[2] + y[2], FALSE)

\* x + y
FAdd(x, y) ==
    LET e == IF x[2] < y[2] THEN x[2] ELSE y[2]
        a == BShl(x[3], x[2] - e)
        b == BShl(y[3], y[2] - e)
    IN  IF x[1] = y[1] THEN FRound(x[1], BAdd(a, b), e, FALSE)
        ELSE IF BCmp(a, b) >= 0 THEN FRound(x[1], BSub(a, b), e, FALSE)
        ELSE FRound(y[1], BSub(b, a), e, FALSE)

\* x - y
FSub(x, y) == FAdd(x, FNeg(y))

\* x / y for y # 0: the quotient is computed to at least 55 bits, the
\* remainder is the sticky bit
FDiv(x, y) ==
    IF FIsZero(x) THEN FZero
    ELSE LET k0 == (MantBits + 2) + BBitLen(y[3]) - BBitLen(x[3])
             k  == IF k0 < 0 THEN 0 ELSE k0
             qr == BDivMod(BShl(x[3], k), y[3])
         IN  FRound((x[1] + y[1]) % 2, qr[1], x[2] - y[2] - k, qr[2] # <<>>)

\* -1, 0, 1 as |x| < |y|, |x| = |y|, |x| > |y|: of two floats the one with
\* the larger exponent is the larger (a significand below 2^52 goes with MinExp)
FMagCmp(x, y) ==
    IF x[2] > y[2] THEN 1
    ELSE IF x[2] < y[2] THEN -1
    ELSE BCmp(x[3], y[3])

\* x <= y
FLe(x, y) ==
    IF x[1] = 0 /\ y[1] = 0 THEN FMagCmp(x, y) <= 0
    ELSE IF x[1] = 1 /\ y[1] = 1 THEN FMagCmp(x, y) >= 0
    ELSE x[1] = 1

\* the float of a non-negative Python int below Base^2
FInt(n) == FRound(0, BTrim(<<n % Base, n \div Base>>), 0, FALSE)

\* the float a decimal literal n * 10^-k denotes (n and 10^k are floats, so
\* their correctly rounded quotient is the float nearest to the literal)
Dec(n, k) == FDiv(FInt(n), FInt(10 ^ k))

\* 2^-k, k <= 1022
Pow2Neg(k) == FRound(0, <<1>>, -k, FALSE)

One == FInt(1)

\* 0 <= x <= 1
FIn01(x) == x[1] = 0 /\ FLe(x, One)

\* abs(x - y) <= tol
FClose(x, y, tol) == FLe(FAbs(FSub(x, y)), tol)


(***************************************************************************)
(* class BayesianDiagnosis                                                 *)
(***************************************************************************)
VARIABLES
    prior,              \* self.prior of each object
    posterior_history,  \* self.posterior_history of each object
    calls,              \* the update calls made so far, each with its outcome
    tests,              \* the caller's list of tests (sensitivity, false positive rate)
    results             \* the caller's list of results (TRUE = positive)

vars == <<prior, posterior_history, calls, tests, results>>

\* what a call that raised returns
NoValue == <<>>

Last(h) == h[Len(h)]

\* zip(ts, rs): pairs up to the shorter list
Zip(ts, rs) ==
    [i \in 1..(IF Len(ts) < Len(rs) THEN Len(ts) ELSE Len(rs)) |-> <<ts[i], rs[i]>>]

\* LikelihoodStep with the complement forgotten on the notD side of a
\* negative result
LikelihoodStepNoComplement(lk, test, res) ==
    IF res
    THEN <<FMul(lk[1], test[1]), FMul(lk[2], test[2])>>
    ELSE <<FMul(lk[1], FSub(One, test[1])), FMul(lk[2], test[2])>>

\* one pass of the loop body: lk = <<likelihood_given_D, likelihood_given_notD>>
LikelihoodStep(lk, test, res) ==
    IF res
    THEN <<FMul(lk[1], test[1]), FMul(lk[2], test[2])>>
    ELSE <<FMul(lk[1], FSub(One, test[1])), FMul(lk[2], FSub(One, test[2]))>>

\* the loop over zip(tests, results), from pair i on, left to right
RECURSIVE LikelihoodsFrom(_, _, _)
LikelihoodsFrom(pairs, i, lk) ==
    IF i > Len(pairs) THEN lk
    ELSE LikelihoodsFrom(pairs, i + 1, LikelihoodStep(lk, pairs[i][1], pairs[i][2]))

Likelihoods(ts, rs) == LikelihoodsFrom(Zip(ts, rs), 1, <<One, One>>)

\* P_notD with the operands of the subtraction swapped
P_notDSwapped(P_D) == FSub(P_D, One)

P_notD(P_D) == FSub(One, P_D)

\* P_all with the notD term subtracted
P_allSubtracted(P_D, lk) == FSub(FMul(P_D, lk[1]), FMul(P_notD(P_D), lk[2]))

\* P_all with the notD term not weighted by P_notD
P_allUnweighted(P_D, lk) == FAdd(FMul(P_D, lk[1]), lk[2])

P_all(P_D, lk) == FAdd(FMul(P_D, lk[1]), FMul(P_notD(P_D), lk[2]))

\* Quotient with a zero divisor coerced to the result 0.0
QuotientCoerced(num, den) ==
    IF FIsZero(den)
    THEN [raised |-> "none", value |-> FZero]
    ELSE [raised |-> "none", value |-> FDiv(num, den)]

\* posterior = (P_D * likelihood_given_D) / P_all: the float division raises
\* ZeroDivisionError for a zero divisor, whatever the dividend
Quotient(num, den) ==
    IF FIsZero(den)
    THEN [raised |-> "ZeroDivisionError", value |-> NoValue]
    ELSE [raised |-> "none", value |-> FDiv(num, den)]

Posterior(P_D, lk) == Quotient(FMul(P_D, lk[1]), P_all(P_D, lk))

\* NewHistory with the append done although the call raised: the posterior
\* the call started from is appended again
NewHistoryAlways(h, out) ==
    IF out.raised = "none" THEN Append(h, out.value) ELSE Append(h, Last(h))

\* NewHistory keeping only the current posterior, in place of the last entry
NewHistoryOverwrite(h, out) ==
    IF out.raised = "none" THEN [h EXCEPT ![Len(h)] = out.value] ELSE h

\* self.posterior_history.append(posterior), reached only if nothing raised
NewHistory(h, out) == IF out.raised = "none" THEN Append(h, out.value) ELSE h

\* __init__(self, prior) for every object of objs
BayesianDiagnosis(objs, priors) ==
    /\ prior \in [objs -> priors]
    /\ posterior_history = [o \in objs |-> <<prior[o]>>]

\* self.update(ts, rs)
Update(self, ts, rs) ==
    /\ LET h   == posterior_history[self]
           out == Posterior(Last(h), Likelihoods(ts, rs))
       IN  /\ posterior_history' =
                  [posterior_history EXCEPT ![self] = NewHistory(h, out)]
           /\ calls' = Append(calls, [self |-> self, tests |-> ts, results |-> rs,
                                      at |-> Len(h),
                                      raised |-> out.raised, value |-> out.value])
    /\ UNCHANGED <<prior, tests, results>>

(***************************************************************************)
(* Inputs.  The three tests and the prior of the example usage, and around *)
(* them the cases the code treats specially: boundary and out-of-range     *)
(* priors, deterministic, uninformative, impossible and out-of-range tests,*)
(* a batch, an empty call.                                                 *)
(***************************************************************************)
TestA == <<Dec(95, 2), Dec(2, 2)>>

TestB == <<Dec(90, 2), Dec(5, 2)>>

TestC == <<Dec(92, 2), Dec(3, 2)>>

ExamplePrior == Dec(1, 3)

\* a subnormal float near 1e-320
Tiny == <<0, MinExp, <<2024>>>>

Priors == {FZero, ExamplePrior, Dec(5, 1), One, Dec(15, 1)}

\* <<tests, results>> of one call
Inputs ==
    { <<(<<>>), (<<>>)>>,
      <<(<<TestA>>), (<<TRUE>>)>>,
      <<(<< <<Dec(95, 2), Dec(95, 2)>> >>), (<<TRUE>>)>>,
      <<(<<TestC>>), (<<FALSE>>)>>,
      <<(<<TestA, TestB>>), (<<TRUE, TRUE>>)>>,
      <<(<< <<FZero, FZero>> >>), (<<TRUE>>)>>,
      <<(<< <<Dec(2, 1), Dec(2, 1)>> >>), (<<FALSE>>)>>,
      <<(<< <<Tiny, Tiny>> >>), (<<TRUE>>)>>,
      <<(<< <<Dec(2, 1), Dec(2, 1)>>, <<FZero, FZero>> >>), (<<FALSE, TRUE>>)>>,
      <<(<< <<One, FZero>> >>), (<<TRUE>>)>>,
      <<(<< <<FZero, Dec(5, 1)>> >>), (<<TRUE>>)>>,
      <<(<< <<Dec(15, 1), Dec(5, 1)>> >>), (<<TRUE>>)>> }

\* the number of update calls in one run
MaxCalls == 2

(***************************************************************************)
(* Spec: one object, any sequence of update calls.                         *)
(***************************************************************************)
Init ==
    /\ BayesianDiagnosis({"diagnosis"}, Priors)
    /\ calls = <<>>
    /\ tests = <<>>
    /\ results = <<>>

Next ==
    /\ Len(calls) < MaxCalls
    /\ \E c \in Inputs : Update("diagnosis", c[1], c[2])

Spec == Init /\ [][Next]_vars

(***************************************************************************)
(* SpecExample: the example usage.  The script builds one object and       *)
(* calls update once per test, in order; it runs here on its own prior,    *)
(* tests and results and on others of the same shape.                      *)
(***************************************************************************)
ExamplePriors == {ExamplePrior, Dec(5, 1)}

ExampleTests == {TestA, TestB, TestC}

ExampleLen == 3

InitExample ==
    /\ BayesianDiagnosis({"diagnosis"}, ExamplePriors)
    /\ calls = <<>>
    /\ tests \in [1..ExampleLen -> ExampleTests]
    /\ results \in [1..ExampleLen -> BOOLEAN]

\* for i in range(len(tests)): diagnosis.update([tests[i]], [results[i]]);
\* an exception ends the script
LoopStep ==
    /\ Len(calls) < Len(tests)
    /\ \A k \in 1..Len(calls) : calls[k].raised = "none"
    /\ LET i == Len(calls) + 1
       IN  Update("diagnosis", <<tests[i]>>, <<results[i]>>)

SpecExample == InitExample /\ [][LoopStep]_vars

(***************************************************************************)
(* SpecFusion: two objects built from one prior; one is given the two      *)
(* tests in one call, the other one test per call.                         *)
(***************************************************************************)
FusionPriors == {ExamplePrior, Dec(5, 1), One}

\* <<test, result>>
FusionItems ==
    { <<TestA, TRUE>>,
      <<TestC, FALSE>>,
      <<(<<One, Dec(1, 9)>>), TRUE>>,
      <<(<<Dec(1, 9), One>>), TRUE>>,
      <<(<<One, Pow2Neg(70)>>), TRUE>>,
      <<(<<Pow2Neg(70), One>>), TRUE>>,
      <<(<<FZero, FZero>>), TRUE>> }

CallsOf(o) == {i \in 1..Len(calls) : calls[i].self = o}

InitFusion ==
    /\ BayesianDiagnosis({"batched", "sequential"}, FusionPriors)
    /\ prior["batched"] = prior["sequential"]
    /\ calls = <<>>
    /\ \E e1 \in FusionItems, e2 \in FusionItems :
          /\ tests = <<e1[1], e2[1]>>
          /\ results = <<e1[2], e2[2]>>

UpdateBatched ==
    /\ CallsOf("batched") = {}
    /\ Update("batched", tests, results)

UpdateFirst ==
    /\ CallsOf("sequential") = {}
    /\ Update("sequential", <<tests[1]>>, <<results[1]>>)

\* the second call is made on the belief the first one returned
UpdateSecond ==
    /\ Cardinality(CallsOf("sequential")) = 1
    /\ \A i \in CallsOf("sequential") : calls[i].raised = "none"
    /\ Update("sequential", <<tests[2]>>, <<results[2]>>)

NextFusion == UpdateBatched \/ UpdateFirst \/ UpdateSecond

SpecFusion == InitFusion /\ [][NextFusion]_vars

(***************************************************************************)
(* Properties.  A call c of the log was made on the object c.self when its *)
(* history had c.at entries; the history is only ever appended to (C3), so *)
(* the posterior the call started from is still entry c.at.                *)
(***************************************************************************)
Objects == DOMAIN posterior_history

Returned(c) == c.raised = "none"

CallP_D(c) == posterior_history[c.self][c.at]

CallLikelihoods(c) == Likelihoods(c.tests, c.results)

CallP_all(c) == P_all(CallP_D(c), CallLikelihoods(c))

\* the length of the history of call i's object when the call had ended: the
\* length the next call on that object found, or the present length
LenAfter(i) ==
    LET later == {j \in CallsOf(calls[i].self) : j > i}
    IN  IF later = {} THEN Len(posterior_history[calls[i].self])
        ELSE calls[CHOOSE j \in later : \A k \in later : j <= k].at

NothingAppended(i) == LenAfter(i) = calls[i].at

ValidTest(t) == FIn01(t[1]) /\ FIn01(t[2])

ValidCall(c) == \A k \in 1..Len(c.tests) : ValidTest(c.tests[k])

Tol9 == Dec(1, 9)

Tol4 == Dec(1, 4)

\* C1: the history grows by exactly one entry on every update call that
\* returns, however many evidence items the call fused, and by none on a
\* call that raises.
C1_HistoryGrowth ==
    \A i \in 1..Len(calls) :
        LenAfter(i) = calls[i].at + (IF Returned(calls[i]) THEN 1 ELSE 0)

C1_Witness ==
    /\ \E i \in 1..Len(calls) :
          Returned(calls[i]) /\ Len(Zip(calls[i].tests, calls[i].results)) = 2
    /\ \E i \in 1..Len(calls) :
          ~Returned(calls[i]) /\ Len(Zip(calls[i].tests, calls[i].results)) = 2

\* C2: from a prior in [0,1], under calls whose tests all have sensitivity
\* and false positive rate in [0,1], every history entry and every returned
\* posterior lies in [0,1].
C2_Range ==
    \A o \in Objects :
        (FIn01(prior[o]) /\ \A i \in CallsOf(o) : ValidCall(calls[i]))
        => /\ \A k \in 1..Len(posterior_history[o]) : FIn01(posterior_history[o][k])
           /\ \A i \in CallsOf(o) : Returned(calls[i]) => FIn01(calls[i].value)

C2_Witness ==
    \E o \in Objects :
        /\ FIn01(prior[o])
        /\ \A i \in CallsOf(o) : ValidCall(calls[i])
        /\ Len(posterior_history[o]) = 3
        /\ \A k \in 1..3 : ~FIsZero(posterior_history[o][k])
                            /\ posterior_history[o][k] # One

\* C3: the first history entry is the prior in every state; a step changes
\* no prior and no entry already in a history, and what it adds to a history
\* is one entry at the end, the value the call returned.
C3_AppendOnly ==
    /\ [](\A o \in Objects : posterior_history[o][1] = prior[o])
    /\ [][\A o \in Objects :
            /\ prior'[o] = prior[o]
            /\ \/ posterior_history'[o] = posterior_history[o]
               \/ /\ Last(calls').self = o
                  /\ Returned(Last(calls'))
                  /\ posterior_history'[o]
                        = Append(posterior_history[o], Last(calls').value)]_vars

C3_Witness ==
    \E o \in Objects :
        /\ Len(posterior_history[o]) = 3
        /\ posterior_history[o][1] = prior[o]
        /\ posterior_history[o][2] # prior[o]
        /\ posterior_history[o][3] # posterior_history[o][2]

\* C4: with both paths ended, the call with [e1, e2] returned if and only if
\* the calls with [e1] and then [e2] both returned, and then the two final
\* posteriors are within 1e-9 of each other, the batched history having one
\* new entry and the sequential history two.
C4_BatchedEqualsSequential ==
    LET b    == CallsOf("batched")
        s    == CallsOf("sequential")
        bret == \A i \in b : Returned(calls[i])
        sret == Cardinality(s) = 2 /\ \A i \in s : Returned(calls[i])
    IN  (b # {} /\ (Cardinality(s) = 2 \/ \E i \in s : ~Returned(calls[i])))
        => /\ bret = sret
           /\ bret => /\ Len(posterior_history["batched"]) = 2
                      /\ Len(posterior_history["sequential"]) = 3
                      /\ FClose(Last(posterior_history["batched"]),
                                Last(posterior_history["sequential"]), Tol9)

C6_EmptyEvidenceError ==
    \A i \in 1..Len(calls) :
        Zip(calls[i].tests, calls[i].results) = <<>>
        => calls[i].raised = "EmptyEvidenceError" /\ NothingAppended(i)

\* a call with a single test whose sensitivity equals its false positive rate
NullCall(c) ==
    /\ Len(c.tests) = 1
    /\ Len(c.results) = 1
    /\ c.tests[1][1] = c.tests[1][2]

\* the smallest normal float, 2^-1022
MinNormal == Pow2Neg(1022)

C8_InvalidProbabilityError ==
    /\ \A o \in Objects : FIn01(prior[o])
    /\ \A i \in 1..Len(calls) :
          ~ValidCall(calls[i])
          => calls[i].raised = "InvalidProbabilityError" /\ NothingAppended(i)

\* the object the example usage builds, and the script's own inputs
ExampleRun ==
    /\ prior["diagnosis"] = ExamplePrior
    /\ tests = <<TestA, TestB, TestC>>
    /\ results = <<TRUE, TRUE, FALSE>>

\* the history so far is within 1e-4 of the expected trajectory, entry by entry
Trajectory(expected) ==
    LET h == posterior_history["diagnosis"]
    IN  /\ Len(h) = Len(calls) + 1
        /\ \A k \in 1..Len(h) : FClose(h[k], expected[k], Tol4)
        /\ \A k \in 1..Len(calls) : Returned(calls[k]) /\ calls[k].value = h[k + 1]

\* C9 as stated: with prior 0.001, the update with (0.95, 0.02, positive)
\* returns a posterior within 1e-4 of 0.04566, and the three tests applied as
\* three calls give the history [0.001, 0.04566, 0.4638, 0.1026] within 1e-4.
C9_Trajectory ==
    ExampleRun
    => Trajectory(<<Dec(1, 3), Dec(4566, 5), Dec(4638, 4), Dec(1026, 4)>>)

\* C9 as amended: the first posterior is within 1e-4 of 0.04539 and the
\* history within 1e-4 of [0.001, 0.04539, 0.4612, 0.06593].
C9_TrajectoryComputed ==
    ExampleRun
    => Trajectory(<<Dec(1, 3), Dec(4539, 5), Dec(4612, 4), Dec(6593, 5)>>)

C9_Witness ==
    /\ ExampleRun
    /\ Len(calls) = 3
    /\ Len(posterior_history["diagnosis"]) = 4

\* C10: once the last history entry is exactly 0 or exactly 1, a call either
\* raises and appends nothing or returns and appends that same value.
C10_Absorbing ==
    [][\A o \in Objects :
          LET h == posterior_history[o]
          IN  (Last(h) = FZero \/ Last(h) = One)
              => \/ posterior_history'[o] = h /\ ~Returned(Last(calls'))
                 \/ /\ posterior_history'[o] = Append(h, Last(h))
                    /\ Last(calls').value = Last(h)]_vars

C10_Witness ==
    /\ \E i \in 1..Len(calls) :
          /\ Returned(calls[i])
          /\ CallP_D(calls[i]) = One
          /\ prior[calls[i].self] # One
          /\ calls[i].tests = <<TestC>>
          /\ calls[i].value = One
    /\ Len(posterior_history["diagnosis"]) = 3

=============================================================================
